---- MODULE Spec2Model ----
(***************************************************************************)
(* A model of the redshirt crate: the XOR cursor (src/cursor.rs), the      *)
(* Redshirt 1 reader/writer (src/v1.rs) and the Redshirt 2 reader/writer   *)
(* with its SHA-1 header digest (src/v2.rs).                                *)
(*                                                                         *)
(* One behaviour is one life of a stream: a Writer is constructed on it,   *)
(* the caller writes the plaintext D through it, the Writer is unwrapped   *)
(* or dropped, the caller rewinds the stream (and may damage stored bytes) *)
(* and hands it to a Reader, which is read and seeked.  The wrapped stream *)
(* is an in-memory seekable byte stream whose calls may fail, accept fewer *)
(* bytes than offered, or return fewer bytes than asked.                   *)
(***************************************************************************)
EXTENDS Integers, Sequences, FiniteSets, TLC

\* ------------------------------------------------------------- bounds
\* Payload lengths are 0..MaxSmall, one byte more than a chunk, and
\* HEADER_LEN + MaxOver.
MaxSmall == 2
MaxOver == 1
\* The stream may already hold 0..MaxOrigin bytes when the Writer gets it.
MaxOrigin == 1
\* The Reader's caller passes buffers of 0..MaxReadBuf bytes.
MaxReadBuf == 3
\* u64 is modelled at a reduced width: TLC's integers are 32-bit.
U64_BITS == 20
\* cursor.rs:15 and v2.rs:65,219 use 16384; the model scales the chunk
\* length down so that bounded payloads are longer than one chunk.
BUFFER_LEN == 4
\* Readers and Writers that are seeked work on payloads of 0..MaxSeekLen
\* bytes.
MaxSeekLen == 2
\* A Writer that is seeked is given 1..MaxSeekWrite bytes to write.
MaxSeekWrite == 1
\* A Writer that only writes is given 1..BUFFER_LEN + MaxChunkOver bytes.
MaxChunkOver == 2
\* A buffer sized before the Writer gets it has room for 1..MaxTrail bytes
\* more than the header and the payload.
MaxTrail == 2

\* ---------------------------------------------------------- constants
MARKER_LEN == 9
SHA1_OUTPUT_LEN == 20
HEADER_LEN == MARKER_LEN + SHA1_OUTPUT_LEN
V1_MARKER == <<82, 69, 68, 83, 72, 73, 82, 84, 0>>
V2_MARKER == <<82, 69, 68, 83, 72, 82, 84, 50, 0>>
U64_MOD == 2 ^ U64_BITS
\* i64 at the same reduced width
I64_MAX == 2 ^ (U64_BITS - 1) - 1
I64_MIN == 0 - 2 ^ (U64_BITS - 1)

Min(a, b) == IF a < b THEN a ELSE b
Max(a, b) == IF a < b THEN b ELSE a

\* Option<T>
None == <<>>
Some(v) == <<v>>

\* ------------------------------------------------------- lib.rs
\* byte ^ 0b1000_0000: flips the top bit.
XorByte(b) == IF b >= 128 THEN b - 128 ELSE b + 128
xor_bytes(bytes) == [i \in 1..Len(bytes) |-> XorByte(bytes[i])]

\* array!(len): len default (zero) bytes
ZeroArray(len) == [i \in 1..len |-> 0]


\* ------------------------------------------------ the wrapped stream T
\* An in-memory seekable byte stream: [data |-> bytes, pos |-> position].
\* Whether a call fails, and how many bytes it moves, is chosen by the
\* action that makes the call; these operators give the effect.

\* T::write accepted `bytes` at the current position (a gap is zero-filled;
\* accepting nothing changes nothing).
StreamWrite(s, bytes) ==
    LET end == s.pos + Len(bytes)
        n   == Max(Len(s.data), end)
    IN IF bytes = <<>> THEN s
       ELSE [data |-> [i \in 1..n |->
                         IF i > s.pos /\ i <= end THEN bytes[i - s.pos]
                         ELSE IF i <= Len(s.data) THEN s.data[i] ELSE 0],
             pos  |-> end]

\* Bytes left between the position and the end of the stream.
StreamAvail(s) == IF s.pos >= Len(s.data) THEN 0 ELSE Len(s.data) - s.pos

\* T::read returned k bytes (k <= StreamAvail(s)).
StreamRead(s, k) ==
    [bytes |-> SubSeq(s.data, s.pos + 1, s.pos + k),
     s     |-> [s EXCEPT !.pos = s.pos + k]]

\* T::seek(SeekFrom) when the stream itself does not fail: a target that is
\* negative or does not fit u64 is refused and the position is kept.
StreamSeek(s, whence, n) ==
    LET t == CASE whence = "Start"   -> n
               [] whence = "Current" -> s.pos + n
               [] whence = "End"     -> Len(s.data) + n
    IN IF t < 0 \/ t >= U64_MOD
       THEN [ok |-> FALSE, s |-> s, v |-> 0]
       ELSE [ok |-> TRUE, s |-> [s EXCEPT !.pos = t], v |-> t]

\* Write::write_all of len bytes: the number of bytes written when it
\* returns (len: Ok; fewer: an error).  The model tries a failure at once,
\* after one byte and before the last byte.
WriteAllOutcomes(len) == {0, 1, len - 1, len}

\* ------------------------------------------------ u64 arithmetic
\* u64 addition that wraps instead of reporting the overflow.
checked_add_wrapping(a, b) == Some((a + b) % U64_MOD)

\* u64::checked_add
checked_add(a, b) == IF a + b >= U64_MOD THEN None ELSE Some(a + b)

\* a - b on u64 when a < b: the build either panics (overflow checks on) or
\* wraps (overflow checks off).
wrapping_sub(a, b) == (a - b + U64_MOD) % U64_MOD

\* ------------------------------------------------ the digest
\* ring's SHA-1 context is kept as the bytes fed to it; the raw digest is an
\* abstract 20-byte function of them that changes whenever one byte
\* changes or one byte is appended.
RECURSIVE ByteSum(_, _, _)
ByteSum(bytes, n, weighted) ==
    IF n = 0 THEN 0
    ELSE ((IF weighted THEN n * bytes[n] ELSE bytes[n])
          + ByteSum(bytes, n - 1, weighted)) % 256

Sha1(bytes) ==
    LET s1 == ByteSum(bytes, Len(bytes), FALSE)
        s2 == ByteSum(bytes, Len(bytes), TRUE)
    IN [j \in 1..SHA1_OUTPUT_LEN |->
          (s2 + j * (Len(bytes) + s1 + 7) + 1) % 256]

\* ChecksumBuilder::new / update
ChecksumNew == <<>>
ChecksumUpdate(c, data) == c \o data

\* ChecksumFinish that reverses the whole digest instead of each word.
ChecksumFinish_reversed(c) ==
    LET raw == Sha1(c)
    IN [i \in 1..SHA1_OUTPUT_LEN |-> raw[SHA1_OUTPUT_LEN + 1 - i]]

\* ChecksumBuilder::finish: the raw digest with the bytes of each 4-byte
\* word reversed.
ChecksumFinish(c) ==
    LET raw == Sha1(c)
    IN [i \in 1..SHA1_OUTPUT_LEN |->
          LET w == (i - 1) \div 4
              j == (i - 1) % 4
          IN raw[4 * w + (3 - j) + 1]]


\* ------------------------------------------------ cursor.rs
\* Cursor { inner, base, offset }: the stream is kept beside the cursor
\* record c = [base, offset].  Every operation returns the new cursor, the
\* new stream, the kind of result, its value, and whether a u64
\* subtraction overflowed on the way (ovf).
CursorNew == [base |-> None, offset |-> 0]

Outcome(c, s, res, val) ==
    [cur |-> c, s |-> s, res |-> res, val |-> val, ovf |-> FALSE]
Overflowed(r) == [r EXCEPT !.ovf = TRUE]

\* Chunk that is the whole buffer, however long.
Chunk_whole(buf) == buf

\* buf.chunks(temp.len()).next(): the first BUFFER_LEN bytes of the buffer.
Chunk(buf) == SubSeq(buf, 1, Min(Len(buf), BUFFER_LEN))

\* Cursor::write_chunk / Write::write.  `fail`: the wrapped write fails;
\* otherwise it accepts the first k bytes of the transformed chunk.
write_chunk(c, s, buf, k, fail) ==
    LET chunk == Chunk(buf)
        used  == xor_bytes(chunk)
    IN IF buf = <<>> THEN Outcome(c, s, "Ok", 0)
       ELSE IF fail THEN Outcome(c, s, "Io", 0)
       ELSE Outcome([c EXCEPT !.offset = c.offset + k],
                    StreamWrite(s, SubSeq(used, 1, k)), "Ok", k)

\* Cursor::write_direct: the bytes go to the wrapped stream as they are.
write_direct(c, s, buf, k, fail) ==
    IF fail THEN Outcome(c, s, "Io", 0)
    ELSE Outcome([c EXCEPT !.offset = c.offset + k],
                 StreamWrite(s, SubSeq(buf, 1, k)), "Ok", k)

\* CursorRead without the transform of the bytes read.
CursorRead_raw(c, s, k, fail) ==
    IF fail THEN [cur |-> c, s |-> s, res |-> "Io", val |-> 0, bytes |-> <<>>]
    ELSE LET r == StreamRead(s, k)
         IN [cur |-> [c EXCEPT !.offset = c.offset + k], s |-> r.s,
             res |-> "Ok", val |-> k, bytes |-> r.bytes]

\* CursorRead that does not advance the offset.
CursorRead_stale(c, s, k, fail) ==
    IF fail THEN [cur |-> c, s |-> s, res |-> "Io", val |-> 0, bytes |-> <<>>]
    ELSE LET r == StreamRead(s, k)
         IN [cur |-> c, s |-> r.s,
             res |-> "Ok", val |-> k, bytes |-> xor_bytes(r.bytes)]

\* Read::read for Cursor.  `fail`: the wrapped read fails; otherwise it
\* returns k bytes, which are transformed in place.
CursorRead(c, s, k, fail) ==
    IF fail THEN [cur |-> c, s |-> s, res |-> "Io", val |-> 0, bytes |-> <<>>]
    ELSE LET r == StreamRead(s, k)
         IN [cur |-> [c EXCEPT !.offset = c.offset + k], s |-> r.s,
             res |-> "Ok", val |-> k, bytes |-> xor_bytes(r.bytes)]

\* The tail of Seek::seek: .map(|v| { self.offset = v - base; self.offset }).
SeekDone(c, s, v, base, checks) ==
    IF v >= base
    THEN Outcome([c EXCEPT !.offset = v - base], s, "Ok", v - base)
    ELSE IF checks THEN Overflowed(Outcome(c, s, "Panic", 0))
    ELSE Overflowed(Outcome([c EXCEPT !.offset = wrapping_sub(v, base)], s,
                            "Ok", wrapping_sub(v, base)))

\* The match of Seek::seek, once base is known.  f.m: the wrapped seek
\* fails; f.r: the seek that restores the position after a refused
\* SeekFrom::End fails (and the unwrap panics).
SeekFrom(c, s, whence, n, base, checks, f) ==
    CASE whence = "Start" ->
           LET t == checked_add(n, base)
           IN IF t = None THEN Outcome(c, s, "InvalidInput", 0)
              ELSE IF f.m THEN Outcome(c, s, "Io", 0)
              ELSE SeekDone(c, StreamSeek(s, "Start", t[1]).s, t[1], base, checks)
      [] whence = "Current" ->
           IF c.offset + n >= 0
           THEN LET r == StreamSeek(s, "Current", n)
                IN IF f.m \/ ~r.ok THEN Outcome(c, s, "Io", 0)
                   ELSE SeekDone(c, r.s, r.v, base, checks)
           ELSE Outcome(c, s, "InvalidInput", 0)
      [] whence = "End" ->
           LET r == StreamSeek(s, "End", n)
           IN IF f.m \/ ~r.ok THEN Outcome(c, s, "Io", 0)
              ELSE IF r.v >= base THEN SeekDone(c, r.s, r.v, base, checks)
              ELSE IF f.r THEN Outcome(c, r.s, "Panic", 0)
              ELSE Outcome(c, StreamSeek(r.s, "Start", c.offset).s,
                           "InvalidInput", 0)

\* CursorSeek that computes base on every call and never stores it.
CursorSeek_forget(c, s, whence, n, checks, f) ==
    IF f.q THEN Outcome(c, s, "Io", 0)
    ELSE IF s.pos >= c.offset
    THEN SeekFrom(c, s, whence, n, s.pos - c.offset, checks, f)
    ELSE IF checks THEN Overflowed(Outcome(c, s, "Panic", 0))
    ELSE Overflowed(SeekFrom(c, s, whence, n, wrapping_sub(s.pos, c.offset),
                             checks, f))

\* Seek::seek for Cursor.  f.q: the position query of the first seek fails.
\* `checks`: the build panics on integer overflow instead of wrapping.
CursorSeek(c, s, whence, n, checks, f) ==
    IF c.base # None
    THEN SeekFrom(c, s, whence, n, c.base[1], checks, f)
    ELSE IF f.q THEN Outcome(c, s, "Io", 0)
    ELSE IF s.pos >= c.offset
    THEN SeekFrom([c EXCEPT !.base = Some(s.pos - c.offset)], s, whence, n,
                  s.pos - c.offset, checks, f)
    ELSE IF checks THEN Overflowed(Outcome(c, s, "Panic", 0))
    ELSE LET v == wrapping_sub(s.pos, c.offset)
         IN Overflowed(SeekFrom([c EXCEPT !.base = Some(v)], s, whence, n, v,
                                checks, f))

\* The ways the wrapped stream's seeks can fail inside one Cursor::seek.
NoFault == [q |-> FALSE, m |-> FALSE, r |-> FALSE]
SeekFaults == [q : BOOLEAN, m : BOOLEAN, r : BOOLEAN]


\* ------------------------------------------------ v2.rs: Writer
\* Writer { dst: Option<Cursor<W>>, checksum }: w = [dst, checksum].

\* The ways finalization's calls on the wrapped stream can fail.  s9: the
\* seek to the digest fails; wr: write_all wrote this many digest bytes and
\* then failed (SHA1_OUTPUT_LEN: it succeeded); sk: the seek back.
FinalFaults ==
    [s9 : BOOLEAN, wr : WriteAllOutcomes(SHA1_OUTPUT_LEN),
     sk : {f \in SeekFaults : ~f.r}]
NoFinalFault == [s9 |-> FALSE, wr |-> SHA1_OUTPUT_LEN, sk |-> NoFault]

Finalized(w, s, res, val, io, ovf) ==
    [w |-> w, s |-> s, res |-> res, val |-> val, io |-> io, ovf |-> ovf]

\* write_digest that leaves the cursor in the Writer instead of taking it.
write_digest_keep(w, s, checks, f) ==
    IF w.dst = None THEN Finalized(w, s, "Ok", "None", 0, FALSE)
    ELSE
      LET dst    == w.dst[1]
          offset == dst.offset
          s1     == StreamSeek(s, "Start", MARKER_LEN).s
          digest == ChecksumFinish(w.checksum)
          s2     == StreamWrite(s1, SubSeq(digest, 1, f.wr))
          back   == CursorSeek(dst, s2, "Start", offset, checks, f.sk)
      IN IF f.s9 THEN Finalized(w, s, "Io", "None", 1, FALSE)
         ELSE IF back.res # "Ok"
              THEN Finalized(w, back.s, "Panic", "None", 3, back.ovf)
         ELSE IF f.wr < SHA1_OUTPUT_LEN
              THEN Finalized(w, back.s, "Io", "None", 3, back.ovf)
         ELSE Finalized(w, back.s, "Ok", "Some", 3, back.ovf)

\* write_digest that seeks to the digest and back without writing it.
write_digest_nopatch(w, s, checks, f) ==
    IF w.dst = None THEN Finalized(w, s, "Ok", "None", 0, FALSE)
    ELSE
      LET dst    == w.dst[1]
          taken  == [w EXCEPT !.dst = None]
          offset == dst.offset
          s1     == StreamSeek(s, "Start", MARKER_LEN).s
          s2     == [s1 EXCEPT !.pos = s1.pos + f.wr]
          back   == CursorSeek(dst, s2, "Start", offset, checks, f.sk)
      IN IF f.s9 THEN Finalized(taken, s, "Io", "None", 1, FALSE)
         ELSE IF back.res # "Ok"
              THEN Finalized(taken, back.s, "Panic", "None", 3, back.ovf)
         ELSE IF f.wr < SHA1_OUTPUT_LEN
              THEN Finalized(taken, back.s, "Io", "None", 3, back.ovf)
         ELSE Finalized(taken, back.s, "Ok", "Some", 3, back.ovf)

\* Writer::write_digest.  val: "Some" when the stream is handed back, io:
\* the number of seeks and writes issued on the stream.
write_digest(w, s, checks, f) ==
    IF w.dst = None THEN Finalized(w, s, "Ok", "None", 0, FALSE)
    ELSE
      LET dst    == w.dst[1]
          taken  == [w EXCEPT !.dst = None]
          offset == dst.offset
          s1     == StreamSeek(s, "Start", MARKER_LEN).s
          digest == ChecksumFinish(w.checksum)
          s2     == StreamWrite(s1, SubSeq(digest, 1, f.wr))
          back   == CursorSeek(dst, s2, "Start", offset, checks, f.sk)
      IN IF f.s9 THEN Finalized(taken, s, "Io", "None", 1, FALSE)
         ELSE IF back.res # "Ok"
              THEN Finalized(taken, back.s, "Panic", "None", 3, back.ovf)
         ELSE IF f.wr < SHA1_OUTPUT_LEN
              THEN Finalized(taken, back.s, "Io", "None", 3, back.ovf)
         ELSE Finalized(taken, back.s, "Ok", "Some", 3, back.ovf)

\* V2Write that feeds the checksum the whole buffer, accepted or not.
V2Write_whole(w, s, buf, k, fail) ==
    IF Len(buf) > BUFFER_LEN \/ w.dst = None
    THEN [w |-> w, s |-> s, res |-> "Panic", val |-> 0]
    ELSE LET used == xor_bytes(buf)
             r    == write_direct(w.dst[1], s, used, k, fail)
         IN IF r.res # "Ok" THEN [w |-> w, s |-> s, res |-> r.res, val |-> 0]
            ELSE [w |-> [dst |-> Some(r.cur),
                         checksum |-> ChecksumUpdate(w.checksum, used)],
                  s |-> r.s, res |-> "Ok", val |-> k]

\* V2Write that feeds the checksum the bytes of a write that failed.
V2Write_onerror(w, s, buf, k, fail) ==
    IF Len(buf) > BUFFER_LEN \/ w.dst = None
    THEN [w |-> w, s |-> s, res |-> "Panic", val |-> 0]
    ELSE LET used == xor_bytes(buf)
             r    == write_direct(w.dst[1], s, used, k, fail)
         IN IF r.res # "Ok"
            THEN [w |-> [w EXCEPT !.checksum = ChecksumUpdate(w.checksum, used)],
                  s |-> s, res |-> r.res, val |-> 0]
            ELSE [w |-> [dst |-> Some(r.cur),
                         checksum |-> ChecksumUpdate(w.checksum, SubSeq(used, 1, k))],
                  s |-> r.s, res |-> "Ok", val |-> k]

\* Write::write for Writer.  `fail`: the wrapped write fails; otherwise it
\* accepts the first k bytes.
V2Write(w, s, buf, k, fail) ==
    IF Len(buf) > BUFFER_LEN \/ w.dst = None
    THEN [w |-> w, s |-> s, res |-> "Panic", val |-> 0]
    ELSE LET used == xor_bytes(buf)
             r    == write_direct(w.dst[1], s, used, k, fail)
         IN IF r.res # "Ok" THEN [w |-> w, s |-> s, res |-> r.res, val |-> 0]
            ELSE [w |-> [dst |-> Some(r.cur),
                         checksum |-> ChecksumUpdate(w.checksum, SubSeq(used, 1, k))],
                  s |-> r.s, res |-> "Ok", val |-> k]

\* ------------------------------------------------ inputs
\* Short payloads are tried with every seed and every origin, the long
\* ones with the first seed on an empty stream.
PayloadSeeds == {72, 201}
ShortLens == 0..MaxSmall
LongLens == {BUFFER_LEN + 1, HEADER_LEN + MaxOver}
Payload(n, seed) == [i \in 1..n |-> (seed + 37 * i) % 256]
Inputs ==
    {[D |-> Payload(n, seed), origin |-> o] :
        n \in ShortLens, seed \in PayloadSeeds, o \in 0..MaxOrigin}
    \cup {[D |-> Payload(n, 72), origin |-> 0] : n \in LongLens}

\* What the caller adds (mod 256) to a stored byte it damages: the next
\* value, or the top bit (which stores the plaintext byte).
DamageDeltas == {1, 128}

\* No call yet.  fault: the failures chosen for the wrapped stream's seeks;
\* buf: the caller's buffer after the call.
NoCall ==
    [op |-> "none", whence |-> "none", n |-> 0, fault |-> NoFault,
     cur |-> CursorNew, pos |-> 0, val |-> 0, buf |-> <<>>]

\* ------------------------------------------------ state
VARIABLES
    overflow_checks, \* the builds the behaviour so far can come from: TRUE
                     \* panics on integer overflow, FALSE wraps; the first
                     \* overflow settles which one it is
    fmt,             \* 1: v1::Reader/Writer, 2: v2::Reader/Writer
    D,               \* the caller's plaintext
    origin,          \* the stream's position when the Writer got it
    stream,          \* the wrapped stream
    pc,              \* where the life of the stream stands
    cursor,          \* the Cursor of the live Reader/Writer
    dst,             \* v2::Writer: dst is Some
    checksum,        \* the ChecksumBuilder of the live v2 Reader/Writer
    sent,            \* bytes of D the Writer has accepted
    res,             \* the result of the last call (of the last read, while
                     \* v2::Reader::new runs)
    out,             \* the bytes the Reader has returned
    eof,             \* a read into a non-empty buffer returned 0
    hdr,             \* v2::Reader::new: header_buf
    io_failed,       \* a call on the wrapped stream failed since it was handed
                     \* over (the calls of a seeking life are in `call`)
    damaged,         \* positions (from origin) of the stored bytes damaged
    finished,        \* how the Writer's into_inner or drop ended
    pre,             \* the stream when finalization began (when it was
                     \* handed to the Reader, after that)
    digests,         \* one record per write_digest call
    call             \* the last call made on a Reader or Writer that can
                     \* seek: what was asked, what the Cursor and the
                     \* stream were before it, what it returned

vars == <<overflow_checks, fmt, D, origin, stream, pc, cursor, dst, checksum,
          sent, res, out, eof, hdr, io_failed, damaged, finished, pre,
          digests, call>>

Init ==
    /\ overflow_checks = BOOLEAN
    /\ fmt \in {1, 2}
    /\ \E in \in Inputs :
         /\ D = in.D
         /\ origin = in.origin
         /\ stream = [data |-> [i \in 1..in.origin |-> 255], pos |-> in.origin]
         /\ pre = [data |-> [i \in 1..in.origin |-> 255], pos |-> in.origin]
    /\ pc = "init"
    /\ cursor = CursorNew
    /\ dst = FALSE
    /\ checksum = ChecksumNew
    /\ sent = 0
    /\ res = "None"
    /\ out = <<>>
    /\ eof = FALSE
    /\ hdr = <<>>
    /\ io_failed = FALSE
    /\ damaged = {}
    /\ finished = "None"
    /\ digests = <<>>
    /\ call = NoCall

\* The lengths of the buffers the caller passes to write when rem bytes of
\* D are left: everything up to one byte more than a chunk, and all of it
\* (write_all).
OfferLens(rem) == {n \in 0..rem : n <= BUFFER_LEN + 1 \/ n = rem}

\* The v2 Writer as a record.
TheWriter == [dst |-> IF dst THEN Some(cursor) ELSE None, checksum |-> checksum]

\* v1::Writer::new / v2::Writer::new: write_all wrote k bytes of the header
\* (all of them: Ok; fewer: it failed).
WriterNew ==
    /\ pc = "init"
    /\ LET header == IF fmt = 1 THEN V1_MARKER
                     ELSE V2_MARKER \o ZeroArray(SHA1_OUTPUT_LEN)
       IN \E k \in WriteAllOutcomes(Len(header)) :
            /\ stream' = StreamWrite(stream, SubSeq(header, 1, k))
            /\ IF k = Len(header)
               THEN /\ pc' = "writer"
                    /\ res' = "Ok"
                    /\ dst' = (fmt = 2)
                    /\ UNCHANGED io_failed
               ELSE /\ pc' = "failed"
                    /\ res' = "Io"
                    /\ io_failed' = TRUE
                    /\ UNCHANGED dst
    /\ cursor' = CursorNew
    /\ checksum' = ChecksumNew
    /\ UNCHANGED <<overflow_checks, fmt, D, origin, sent, out, eof, hdr,
                   damaged, finished, pre, digests>>
    /\ UNCHANGED call

\* Write::write on the Writer: the caller offers the next n bytes of D; the
\* wrapped write fails, or accepts k of the bytes it is given.
WriterWrite ==
    /\ pc = "writer"
    /\ \E n \in OfferLens(Len(D) - sent), k \in -1..Min(Len(D) - sent, BUFFER_LEN) :
         /\ k <= n
         /\ LET buf  == SubSeq(D, sent + 1, sent + n)
                fail == (k = -1)
            IN IF fmt = 1
               THEN LET r == write_chunk(cursor, stream, buf, k, fail)
                    IN /\ cursor' = r.cur
                       /\ stream' = r.s
                       /\ res' = r.res
                       /\ sent' = sent + r.val
                       /\ io_failed' = (io_failed \/ r.res = "Io")
                       /\ UNCHANGED <<pc, dst, checksum>>
               ELSE LET r == V2Write(TheWriter, stream, buf, k, fail)
                    IN /\ cursor' = IF r.w.dst = None THEN cursor ELSE r.w.dst[1]
                       /\ checksum' = r.w.checksum
                       /\ stream' = r.s
                       /\ res' = r.res
                       /\ sent' = sent + r.val
                       /\ io_failed' = (io_failed \/ r.res = "Io")
                       /\ pc' = IF r.res = "Panic" THEN "unwind" ELSE pc
                       /\ UNCHANGED dst
    /\ UNCHANGED <<overflow_checks, fmt, D, origin, out, eof, hdr, damaged,
                   finished, pre, digests>>
    /\ UNCHANGED call

\* v1::Writer::into_inner
V1IntoInner ==
    /\ pc = "writer"
    /\ fmt = 1
    /\ pc' = "returned"
    /\ res' = "Ok"
    /\ finished' = "Ok"
    /\ UNCHANGED <<overflow_checks, fmt, D, origin, stream, cursor, dst,
                   checksum, sent, out, eof, hdr, io_failed, damaged, pre,
                   digests>>
    /\ UNCHANGED call

DigestRecord(r, before) ==
    [res |-> r.res, val |-> r.val, io |-> r.io, moved |-> (r.s # before)]

\* v2::Writer::into_inner: write_digest().map(Option::unwrap), then the drop
\* of the Writer it consumed, which calls write_digest().unwrap() again.
\* Err(Io): the handle is gone ("lost"), the bytes outlive it.
V2IntoInner ==
    /\ pc = "writer"
    /\ fmt = 2
    /\ \E f \in FinalFaults, checks \in overflow_checks :
         LET first  == write_digest(TheWriter, stream, checks, f)
             second == write_digest(first.w, first.s, checks, f)
             panic  == \/ first.res = "Panic"
                       \/ first.res = "Ok" /\ first.val = "None"
                       \/ second.res # "Ok"
         IN /\ stream' = second.s
            /\ dst' = (second.w.dst # None)
            /\ digests' = <<DigestRecord(first, stream),
                            DigestRecord(second, first.s)>>
            /\ res' = IF panic THEN "Panic" ELSE first.res
            /\ finished' = IF panic THEN "Panic" ELSE first.res
            /\ pc' = IF panic THEN "panicked"
                     ELSE IF first.res = "Ok" THEN "returned" ELSE "lost"
            /\ io_failed' = (io_failed \/ f # NoFinalFault)
            /\ overflow_checks' = IF first.ovf \/ second.ovf THEN {checks}
                                  ELSE overflow_checks
    /\ pre' = stream
    /\ UNCHANGED <<fmt, D, origin, cursor, checksum, sent, out, eof, hdr,
                   damaged>>
    /\ UNCHANGED call

\* V2Drop that swallows the error of a failed finalization.
V2Drop_silent ==
    /\ pc \in {"writer", "unwind"}
    /\ fmt = 2
    /\ \E f \in FinalFaults, checks \in overflow_checks :
         LET first == write_digest(TheWriter, stream, checks, f)
         IN /\ stream' = first.s
            /\ dst' = (first.w.dst # None)
            /\ digests' = <<DigestRecord(first, stream)>>
            /\ res' = "Ok"
            /\ finished' = "Ok"
            /\ pc' = IF pc = "writer" THEN "dropped" ELSE "panicked"
            /\ io_failed' = (io_failed \/ f # NoFinalFault)
            /\ overflow_checks' = IF first.ovf THEN {checks} ELSE overflow_checks
    /\ pre' = stream
    /\ UNCHANGED <<fmt, D, origin, cursor, checksum, sent, out, eof, hdr,
                   damaged>>
    /\ UNCHANGED call

\* Drop for v2::Writer without into_inner (also while a panic in write
\* unwinds): write_digest().unwrap().
V2Drop ==
    /\ pc \in {"writer", "unwind"}
    /\ fmt = 2
    /\ \E f \in FinalFaults, checks \in overflow_checks :
         LET first == write_digest(TheWriter, stream, checks, f)
         IN /\ stream' = first.s
            /\ dst' = (first.w.dst # None)
            /\ digests' = <<DigestRecord(first, stream)>>
            /\ res' = IF first.res = "Ok" THEN "Ok" ELSE "Panic"
            /\ finished' = IF first.res = "Ok" THEN "Ok" ELSE "Panic"
            /\ pc' = IF first.res = "Ok" /\ pc = "writer" THEN "dropped"
                     ELSE "panicked"
            /\ io_failed' = (io_failed \/ f # NoFinalFault)
            /\ overflow_checks' = IF first.ovf THEN {checks} ELSE overflow_checks
    /\ pre' = stream
    /\ UNCHANGED <<fmt, D, origin, cursor, checksum, sent, out, eof, hdr,
                   damaged>>
    /\ UNCHANGED call

\* The caller has written all of D and got the stream back (or the bytes
\* outlive a handle lost in a failed finalization): it rewinds the stream to
\* where the Writer started and hands it to Reader::new.  Nothing of the
\* Writer is left.
Rewind ==
    /\ pc \in {"returned", "dropped", "lost"}
    /\ sent = Len(D)
    /\ stream' = [stream EXCEPT !.pos = origin]
    /\ pc' = "handed"
    /\ res' = "None"
    /\ io_failed' = FALSE
    /\ cursor' = CursorNew
    /\ dst' = FALSE
    /\ checksum' = ChecksumNew
    /\ pre' = stream'
    /\ digests' = <<>>
    /\ UNCHANGED <<overflow_checks, fmt, D, origin, sent, out, eof, hdr,
                   damaged, finished>>
    /\ UNCHANGED call

\* One stored byte is damaged before the stream reaches the Reader.
Damage ==
    /\ pc = "handed"
    /\ damaged = {}
    /\ \E i \in 1..(Len(stream.data) - origin), d \in DamageDeltas :
         /\ stream' = [stream EXCEPT
                         !.data[origin + i] = (stream.data[origin + i] + d) % 256]
         /\ damaged' = {i}
    /\ UNCHANGED <<overflow_checks, fmt, D, origin, pc, cursor, dst, checksum,
                   sent, res, out, eof, hdr, io_failed, finished, pre, digests>>
    /\ UNCHANGED call

\* Read::read_exact of len bytes: the number of bytes consumed when it
\* returns.  len: Ok.  Fewer: an error, either the end of the stream or a
\* failed read at once or after one byte.
ReadExactOutcomes(s, len) ==
    IF StreamAvail(s) < len THEN {0, StreamAvail(s)}
    ELSE {0, 1, len}

\* MarkerMatches that leaves the terminating byte of the marker out.
MarkerMatches_short(buf, MARKER) ==
    SubSeq(buf, 1, MARKER_LEN - 1) = SubSeq(MARKER, 1, MARKER_LEN - 1)

\* marker_buf == MARKER (v1) / header_buf[..MARKER_LEN] == MARKER (v2)
MarkerMatches(buf, MARKER) == SubSeq(buf, 1, MARKER_LEN) = MARKER

\* v1::Reader::new / the header part of v2::Reader::new: read_exact, then
\* the marker is compared.
ReaderNew ==
    /\ pc = "handed"
    /\ LET len    == IF fmt = 1 THEN MARKER_LEN ELSE HEADER_LEN
           MARKER == IF fmt = 1 THEN V1_MARKER ELSE V2_MARKER
       IN \E k \in ReadExactOutcomes(stream, len) :
            LET r == StreamRead(stream, k)
            IN /\ stream' = r.s
               /\ IF k < len
                  THEN /\ res' = "Io"
                       /\ pc' = "rejected"
                       /\ io_failed' = (io_failed \/ k < StreamAvail(stream))
                       /\ UNCHANGED hdr
                  ELSE /\ UNCHANGED io_failed
                       /\ hdr' = r.bytes
                       /\ IF ~MarkerMatches(r.bytes, MARKER)
                          THEN res' = "BadHeader" /\ pc' = "rejected"
                          ELSE IF fmt = 1
                               THEN res' = "Ok" /\ pc' = "reader"
                               ELSE res' = "None" /\ pc' = "verify"
    /\ cursor' = CursorNew
    /\ checksum' = ChecksumNew
    /\ UNCHANGED <<overflow_checks, fmt, D, origin, dst, sent, out, eof,
                   damaged, finished, pre, digests>>
    /\ UNCHANGED call

\* What one src.read(&mut buffer) of the verification loop can do: fail
\* with ErrorKind::Interrupted, fail otherwise, or return some bytes (0 at
\* the end of the stream).
Interrupted == -2
OtherError == -1
\* VerifyReads that reports the end of the stream one byte early.
VerifyReads_early(s) ==
    {Interrupted, OtherError}
    \cup (IF StreamAvail(s) <= 1 THEN {0}
          ELSE 1..Min(BUFFER_LEN, StreamAvail(s) - 1))

VerifyReads(s) ==
    {Interrupted, OtherError}
    \cup (IF StreamAvail(s) = 0 THEN {0} ELSE 1..Min(BUFFER_LEN, StreamAvail(s)))

\* VerifyEnd without the comparison of the digests.
VerifyEnd_nocheck(s, c, header, seek_fails) ==
    IF seek_fails THEN [res |-> "Io", s |-> s]
    ELSE [res |-> "Ok", s |-> StreamSeek(s, "Start", HEADER_LEN).s]

\* VerifyEnd that compares the first 4-byte word of the digests only.
VerifyEnd_word(s, c, header, seek_fails) ==
    IF SubSeq(header, MARKER_LEN + 1, MARKER_LEN + 4)
         # SubSeq(ChecksumFinish(c), 1, 4)
    THEN [res |-> "BadChecksum", s |-> s]
    ELSE IF seek_fails THEN [res |-> "Io", s |-> s]
    ELSE [res |-> "Ok", s |-> StreamSeek(s, "Start", HEADER_LEN).s]

\* The end of v2::Reader::new, after the loop: the digests are compared and
\* the stream is sought to HEADER_LEN.  seek_fails: that seek fails.
VerifyEnd(s, c, header, seek_fails) ==
    IF SubSeq(header, MARKER_LEN + 1, HEADER_LEN) # ChecksumFinish(c)
    THEN [res |-> "BadChecksum", s |-> s]
    ELSE IF seek_fails THEN [res |-> "Io", s |-> s]
    ELSE [res |-> "Ok", s |-> StreamSeek(s, "Start", HEADER_LEN).s]

\* VerifyStep that gives up on an interrupted read.
VerifyStep_giveup ==
    /\ pc = "verify"
    /\ \E got \in VerifyReads(stream), seek_fails \in BOOLEAN :
         CASE got = Interrupted ->
                /\ ~seek_fails
                /\ res' = "Interrupted"
                /\ pc' = "rejected"
                /\ UNCHANGED <<stream, checksum, io_failed>>
           [] got = OtherError ->
                /\ ~seek_fails
                /\ io_failed' = TRUE
                /\ res' = "Io"
                /\ pc' = "rejected"
                /\ UNCHANGED <<stream, checksum>>
           [] got = 0 ->
                LET e == VerifyEnd(stream, checksum, hdr, seek_fails)
                IN /\ stream' = e.s
                   /\ res' = e.res
                   /\ pc' = IF e.res = "Ok" THEN "reader" ELSE "rejected"
                   /\ io_failed' = (io_failed \/ e.res = "Io")
                   /\ UNCHANGED checksum
           [] OTHER ->
                LET r == StreamRead(stream, got)
                IN /\ ~seek_fails
                   /\ stream' = r.s
                   /\ checksum' = ChecksumUpdate(checksum, r.bytes)
                   /\ res' = "None"
                   /\ UNCHANGED <<pc, io_failed>>
    /\ UNCHANGED <<overflow_checks, fmt, D, origin, cursor, dst, sent, out,
                   eof, hdr, damaged, finished, pre, digests>>
    /\ UNCHANGED call

\* One turn of the verification loop of v2::Reader::new, with what follows
\* the loop when the read returns 0.
VerifyStep ==
    /\ pc = "verify"
    /\ \E got \in VerifyReads(stream), seek_fails \in BOOLEAN :
         CASE got = Interrupted ->
                /\ ~seek_fails
                /\ res' = "Interrupted"
                /\ UNCHANGED <<stream, checksum, pc, io_failed>>
           [] got = OtherError ->
                /\ ~seek_fails
                /\ io_failed' = TRUE
                /\ res' = "Io"
                /\ pc' = "rejected"
                /\ UNCHANGED <<stream, checksum>>
           [] got = 0 ->
                LET e == VerifyEnd(stream, checksum, hdr, seek_fails)
                IN /\ stream' = e.s
                   /\ res' = e.res
                   /\ pc' = IF e.res = "Ok" THEN "reader" ELSE "rejected"
                   /\ io_failed' = (io_failed \/ e.res = "Io")
                   /\ UNCHANGED checksum
           [] OTHER ->
                LET r == StreamRead(stream, got)
                IN /\ ~seek_fails
                   /\ stream' = r.s
                   /\ checksum' = ChecksumUpdate(checksum, r.bytes)
                   /\ res' = "None"
                   /\ UNCHANGED <<pc, io_failed>>
    /\ UNCHANGED <<overflow_checks, fmt, D, origin, cursor, dst, sent, out,
                   eof, hdr, damaged, finished, pre, digests>>
    /\ UNCHANGED call

\* Read::read on the Reader with a buffer of n bytes: the wrapped read
\* fails (k = -1) or returns k bytes, 0 only for an empty buffer or at the
\* end of the stream.
ReaderRead ==
    /\ pc = "reader"
    /\ \E n \in 0..MaxReadBuf, k \in -1..MaxReadBuf :
         /\ k <= Min(n, StreamAvail(stream))
         /\ k = 0 => (n = 0 \/ StreamAvail(stream) = 0)
         /\ LET r == CursorRead(cursor, stream, Max(k, 0), k = -1)
            IN /\ cursor' = r.cur
               /\ stream' = r.s
               /\ res' = r.res
               /\ out' = out \o r.bytes
               /\ eof' = (eof \/ (k = 0 /\ n > 0))
               /\ io_failed' = (io_failed \/ r.res = "Io")
    /\ UNCHANGED <<overflow_checks, fmt, D, origin, pc, dst, checksum, sent,
                   hdr, damaged, finished, pre, digests>>
    /\ UNCHANGED call

\* v1::Reader::into_inner / v2::Reader::into_inner
ReaderIntoInner ==
    /\ pc = "reader"
    /\ pc' = "closed"
    /\ res' = "Ok"
    /\ UNCHANGED <<overflow_checks, fmt, D, origin, stream, cursor, dst,
                   checksum, sent, out, eof, hdr, io_failed, damaged, finished,
                   pre, digests>>
    /\ UNCHANGED call

Next ==
    \/ WriterNew \/ WriterWrite \/ V1IntoInner \/ V2IntoInner \/ V2Drop
    \/ Rewind \/ Damage
    \/ ReaderNew \/ VerifyStep \/ ReaderRead \/ ReaderIntoInner

Spec == Init /\ [][Next]_vars

\* A turn of the verification loop whose read is not interrupted.
VerifyProgress == VerifyStep /\ res' # "Interrupted"

\* The lives in which the stream does not interrupt the reads of
\* v2::Reader::new for ever: the loop of Reader::new runs until it returns,
\* and a read that is not interrupted comes after finitely many that are.
LiveSpec == Init /\ [][Next]_vars /\ WF_vars(VerifyProgress)

\* ------------------------------------------------ seeking
\* A second life of a stream: a v1 Writer is constructed on it, or it holds
\* an encoding and a Reader is constructed on it, and the caller then
\* reads, writes and seeks in any order.  (v2::Writer has no Seek.)

\* What a Writer leaves for the plaintext `data`.
Encode(f, data) ==
    IF f = 1 THEN V1_MARKER \o xor_bytes(data)
    ELSE V2_MARKER \o ChecksumFinish(xor_bytes(data)) \o xor_bytes(data)

\* The stream under a seeking Writer is a fixed buffer with room for the
\* marker, the payload and one byte more; writes past its end accept 0.
WriterCap == MaxOrigin + MARKER_LEN + Len(D) + 1

\* The byte the caller's read buffers are filled with before a read.
Filler == 170

SeekInit ==
    /\ overflow_checks = BOOLEAN
    /\ fmt \in {1, 2}
    /\ origin \in 0..MaxOrigin
    /\ \E role \in {"init", "handed"} :
         /\ role = "init" => fmt = 1
         /\ pc = role
         /\ \E n \in 0..MaxSeekLen :
              /\ role = "init" => n \in 1..MaxSeekWrite
              /\ D = Payload(n, 72)
         /\ stream = [data |-> [i \in 1..origin |-> 255]
                                 \o (IF role = "init" THEN <<>> ELSE Encode(fmt, D)),
                      pos  |-> origin]
    /\ pre = stream
    /\ cursor = CursorNew
    /\ dst = FALSE
    /\ checksum = ChecksumNew
    /\ sent = 0
    /\ res = "None"
    /\ out = <<>>
    /\ eof = FALSE
    /\ hdr = <<>>
    /\ io_failed = FALSE
    /\ damaged = {}
    /\ finished = "None"
    /\ digests = <<>>
    /\ call = NoCall

\* The base the Cursor has, or would capture now.
BaseNow ==
    IF cursor.base # None THEN cursor.base[1]
    ELSE wrapping_sub(stream.pos, cursor.offset)

\* The arguments the caller seeks with: around the payload, around the
\* largest target that fits u64, and the ends of i64.  From a position
\* beyond the end of the stream the caller does not step further away, and
\* at an offset beyond it the caller does not seek from the end: this keeps
\* the positions a behaviour can reach few.
SeekArgs(whence) ==
    CASE whence = "Start" ->
           {0, 1, Len(D), U64_MOD - BaseNow - 1, U64_MOD - BaseNow}
      [] whence = "Current" ->
           IF stream.pos <= Len(stream.data)
           THEN {I64_MIN, -2, -1, 0, 1, I64_MAX}
           ELSE {I64_MIN, 0}
      [] whence = "End" ->
           IF cursor.offset <= Len(stream.data)
           THEN {0 - (Len(stream.data) + 1), 0 - (Len(D) + 1), 0 - Len(D),
                 -1, 0, 1}
           ELSE {}

\* One call of Seek::seek meets at most one failing seek of the stream.
OneFault == {f \in SeekFaults : ~(f.q /\ f.m) /\ ~(f.q /\ f.r) /\ ~(f.m /\ f.r)}

\* Seek::seek on a v1 Reader, a v2 Reader or a v1 Writer that has bytes
\* left to write.  Which build runs matters only to a call that overflows.
SeekCall ==
    /\ pc \in {"reader", "writer"}
    /\ pc = "writer" => sent < Len(D)
    /\ \E whence \in {"Start", "Current", "End"}, f \in OneFault,
          checks \in overflow_checks :
         \E n \in SeekArgs(whence) :
           /\ f.q => cursor.base = None
           /\ f.r => whence = "End"
           /\ LET r == CursorSeek(cursor, stream, whence, n, checks, f)
              IN /\ r.ovf \/ checks = (TRUE \in overflow_checks)
                 /\ cursor' = r.cur
                 /\ stream' = r.s
                 /\ res' = r.res
                 /\ pc' = IF r.res = "Panic" THEN "panicked" ELSE pc
                 /\ overflow_checks' = IF r.ovf THEN {checks} ELSE overflow_checks
                 /\ call' = [op |-> "seek", whence |-> whence, n |-> n,
                             fault |-> f, cur |-> cursor, pos |-> stream.pos,
                             val |-> r.val, buf |-> <<>>]
    /\ UNCHANGED <<fmt, D, origin, dst, checksum, sent, out, eof, hdr,
                   io_failed, damaged, finished, pre, digests>>

\* Read::read on a Reader into a buffer of n bytes of Filler: the wrapped
\* read fails (k = -1) or returns k bytes at the front of the buffer.
ReadCall ==
    /\ pc = "reader"
    /\ \E n \in 0..MaxReadBuf, k \in -1..MaxReadBuf :
         /\ k <= Min(n, StreamAvail(stream))
         /\ k = 0 => (n = 0 \/ StreamAvail(stream) = 0)
         /\ LET buf == [i \in 1..n |-> Filler]
                r   == CursorRead(cursor, stream, Max(k, 0), k = -1)
            IN /\ cursor' = r.cur
               /\ stream' = r.s
               /\ res' = r.res
               /\ call' = [op |-> "read", whence |-> "none", n |-> n,
                           fault |-> NoFault, cur |-> cursor,
                           pos |-> stream.pos, val |-> r.val,
                           buf |-> r.bytes \o SubSeq(buf, Len(r.bytes) + 1, n)]
    /\ UNCHANGED <<overflow_checks, fmt, D, origin, pc, dst, checksum, sent,
                   out, eof, hdr, io_failed, damaged, finished, pre, digests>>

\* Write::write on a v1 Writer with the next n bytes of D, at whatever
\* offset the Writer is: the wrapped write fails (k = -1) or accepts k of
\* the bytes it is passed, as many as the buffer under it has room for.
WriteCall ==
    /\ pc = "writer"
    /\ \E n \in 0..(Len(D) - sent), k \in -1..(Len(D) - sent) :
         /\ LET buf == SubSeq(D, sent + 1, sent + n)
            IN k <= Min(Len(Chunk(buf)), Max(WriterCap - stream.pos, 0))
         /\ LET buf == SubSeq(D, sent + 1, sent + n)
                r   == write_chunk(cursor, stream, buf, k, k = -1)
            IN /\ cursor' = r.cur
               /\ stream' = r.s
               /\ res' = r.res
               /\ sent' = sent + r.val
               /\ call' = [op |-> "write", whence |-> "none", n |-> n,
                           fault |-> NoFault, cur |-> cursor,
                           pos |-> stream.pos, val |-> r.val, buf |-> buf]
    /\ UNCHANGED <<overflow_checks, fmt, D, origin, pc, dst, checksum, out,
                   eof, hdr, io_failed, damaged, finished, pre, digests>>

SeekNext ==
    \/ WriterNew \/ ReaderNew \/ VerifyStep
    \/ SeekCall \/ ReadCall \/ WriteCall

SeekSpec == SeekInit /\ [][SeekNext]_vars

\* ------------------------------------------------ writing
\* A third life of a stream: a v1 Writer is constructed on it and the caller
\* writes D through it with buffers of any length, never seeking.
WriteInit ==
    /\ overflow_checks = BOOLEAN
    /\ fmt = 1
    /\ origin \in 0..MaxOrigin
    /\ \E n \in 1..(BUFFER_LEN + MaxChunkOver), seed \in PayloadSeeds :
         D = Payload(n, seed)
    /\ stream = [data |-> [i \in 1..origin |-> 255], pos |-> origin]
    /\ pre = stream
    /\ pc = "init"
    /\ cursor = CursorNew
    /\ dst = FALSE
    /\ checksum = ChecksumNew
    /\ sent = 0
    /\ res = "None"
    /\ out = <<>>
    /\ eof = FALSE
    /\ hdr = <<>>
    /\ io_failed = FALSE
    /\ damaged = {}
    /\ finished = "None"
    /\ digests = <<>>
    /\ call = NoCall

WriteNext == WriterNew \/ WriteCall

WriteSpec == WriteInit /\ [][WriteNext]_vars

\* ------------------------------------------------ sized buffers
\* A fourth life of a stream: the caller sizes the buffer before the Writer
\* gets it, longer than the header and the payload need, and filled with
\* one byte; the Writer overwrites the front of it, and what is left of the
\* filling follows the encoding when the Reader gets the stream.
TrailFills == {0, 213}

TrailInit ==
    /\ overflow_checks = BOOLEAN
    /\ fmt \in {1, 2}
    /\ origin \in 0..MaxOrigin
    /\ \E n \in ShortLens : D = Payload(n, 72)
    /\ \E extra \in 1..MaxTrail, fill \in TrailFills :
         stream = [data |-> [i \in 1..origin |-> 255]
                              \o [i \in 1..((IF fmt = 1 THEN MARKER_LEN ELSE HEADER_LEN)
                                            + Len(D) + extra) |-> fill],
                   pos  |-> origin]
    /\ pre = stream
    /\ pc = "init"
    /\ cursor = CursorNew
    /\ dst = FALSE
    /\ checksum = ChecksumNew
    /\ sent = 0
    /\ res = "None"
    /\ out = <<>>
    /\ eof = FALSE
    /\ hdr = <<>>
    /\ io_failed = FALSE
    /\ damaged = {}
    /\ finished = "None"
    /\ digests = <<>>
    /\ call = NoCall

TrailSpec == TrailInit /\ [][Next]_vars

\* ------------------------------------------------ claims
\* plaintext_byte XOR 0x80, for every byte of a sequence
Stored(bytes) == [i \in 1..Len(bytes) |-> (bytes[i] + 128) % 256]

\* C1: a v1 Writer on an empty stream at position 0 that has accepted all
\* of D and is unwrapped leaves the marker "REDSHIRT\0" followed by
\* D[i] XOR 0x80; a v1 Reader on those bytes, read to the end of the
\* stream, has returned exactly D.
C1_V1RoundTrip ==
    (fmt = 1 /\ origin = 0) =>
        /\ (pc = "returned" /\ sent = Len(D)) =>
               stream.data = V1_MARKER \o Stored(D)
        /\ (pc \in {"reader", "closed"} /\ damaged = {}) =>
               /\ out = SubSeq(D, 1, Len(out))
               /\ eof => out = D

\* C1 witness: a payload longer than one chunk has been written, read back
\* in full and the end of the stream seen.
C1_Witness ==
    /\ fmt = 1 /\ origin = 0 /\ pc = "reader" /\ damaged = {}
    /\ eof /\ Len(D) > BUFFER_LEN /\ out = D

\* into_inner has run (write_digest, then the drop's write_digest) and the
\* Reader has not been given the stream yet.
IntoInnerDone == fmt = 2 /\ Len(digests) = 2

\* C2: for every D, a v2 Writer on an empty stream at position 0 accepts
\* all of D without a panic, into_inner returns the stream when no call on
\* the stream failed, Reader::new on the bytes succeeds, and reading to the
\* end of the stream returns exactly D.
C2_V2RoundTrip ==
    (fmt = 2 /\ origin = 0) =>
        /\ pc # "unwind"
        /\ (IntoInnerDone /\ ~io_failed) => res = "Ok"
        /\ (finished = "Ok" /\ damaged = {} /\ ~io_failed) => pc # "rejected"
        /\ (finished = "Ok" /\ damaged = {} /\ pc \in {"reader", "closed"}) =>
               /\ out = SubSeq(D, 1, Len(out))
               /\ eof => out = D

\* C3: v2 Writer::into_inner never panics: it returns Ok(stream) or
\* Err(Io), whatever was written and whichever calls on the stream fail.
C3_IntoInnerNeverPanics == IntoInnerDone => res \in {"Ok", "Io"}

\* C5: the stream returned by into_inner is at the position it had before
\* finalization began, HEADER_LEN + the number of payload bytes written.
C5_PositionRestored ==
    (IntoInnerDone /\ res = "Ok" /\ origin = 0) =>
        /\ stream.pos = pre.pos
        /\ stream.pos = HEADER_LEN + sent

\* The stored form of the payload bytes the wrapped stream has accepted.
Accepted == Stored(SubSeq(D, 1, sent))

\* A v2 finalization (into_inner or drop) has succeeded and the stream has
\* not been rewound yet; pre is the stream as finalization found it.
FinalizedOk == fmt = 2 /\ pc \in {"returned", "dropped"}

\* C4: after a successful v2 finalization bytes 9..29 of the stream hold
\* the post-processed digest of exactly the stored payload bytes the stream
\* accepted, and every other byte is as finalization found it: on a stream
\* that started empty, the marker "REDSHRT2\0" and the stored payload.
C4_DigestAndFrame ==
    FinalizedOk =>
        /\ SubSeq(stream.data, MARKER_LEN + 1, HEADER_LEN) = ChecksumFinish(Accepted)
        /\ Len(stream.data) = Len(pre.data)
        /\ \A i \in 1..Len(stream.data) :
              (i <= MARKER_LEN \/ i > HEADER_LEN) => stream.data[i] = pre.data[i]
        /\ origin = 0 =>
              /\ SubSeq(stream.data, 1, MARKER_LEN) = V2_MARKER
              /\ SubSeq(stream.data, HEADER_LEN + 1, Len(stream.data)) = Accepted

\* C4 witness: into_inner has returned a stream that accepted more than one
\* chunk of D but not all of it, with a digest in place of the placeholder.
C4_Witness ==
    /\ FinalizedOk /\ pc = "returned" /\ origin = 0
    /\ sent > BUFFER_LEN /\ sent < Len(D)
    /\ SubSeq(stream.data, MARKER_LEN + 1, HEADER_LEN) = ChecksumFinish(Accepted)
    /\ SubSeq(stream.data, MARKER_LEN + 1, HEADER_LEN) # ZeroArray(SHA1_OUTPUT_LEN)

\* C6: the first finalize takes the cursor; the finalize the drop runs
\* after into_inner, whatever into_inner returned, issues no seek and no
\* write, leaves the stream as it is and returns Ok(None).
C6_FinalizeOnce ==
    /\ digests # <<>> => ~dst
    /\ Len(digests) = 2 =>
          /\ digests[1].io > 0
          /\ digests[2] = [res |-> "Ok", val |-> "None", io |-> 0, moved |-> FALSE]

\* C6 witness: into_inner returned Err after writing part of the digest,
\* and the drop's finalize has run.
C6_Witness ==
    /\ fmt = 2 /\ pc = "lost" /\ Len(digests) = 2
    /\ digests[1].res = "Io" /\ digests[1].io = 3 /\ digests[1].moved
    /\ digests[2].io = 0

\* C7: a v2 Reader returns bytes only once it exists, it exists only if the
\* digest of all stored bytes after the header equals the digest in the
\* header, and a mismatch ends construction with BadChecksum and no Reader.
C7_ChecksumBeforeRead ==
    fmt = 2 =>
        /\ out # <<>> => pc \in {"reader", "closed"}
        /\ pc \in {"reader", "closed"} =>
              SubSeq(stream.data, origin + MARKER_LEN + 1, origin + HEADER_LEN)
                = ChecksumFinish(SubSeq(stream.data, origin + HEADER_LEN + 1,
                                        Len(stream.data)))
        /\ res = "BadChecksum" => pc = "rejected" /\ out = <<>>

\* C7 witness: a v2 Reader over a payload longer than one chunk has
\* returned bytes.
C7_Witness ==
    /\ fmt = 2 /\ pc = "reader" /\ out # <<>> /\ Len(D) > BUFFER_LEN
    /\ Len(stream.data) = HEADER_LEN + Len(D)

\* C8: when into_inner hands the stream back, the digest of everything the
\* Writer was given is in the header; and once finalization has run, no
\* payload byte is accepted and no Writer is left to write one.
C8_PatchOrder ==
    /\ [](fmt = 2 /\ pc = "returned" =>
            /\ digests[1].io = 3
            /\ SubSeq(stream.data, MARKER_LEN + 1, HEADER_LEN)
                 = ChecksumFinish(checksum))
    /\ [][(fmt = 2 /\ finished # "None") =>
            /\ sent' = sent
            /\ pc' # "writer"
            /\ finished' = finished]_vars

\* C8 witness: into_inner has returned the stream after several writes.
C8_Witness ==
    /\ fmt = 2 /\ pc = "returned" /\ finished = "Ok" /\ sent = Len(D)
    /\ sent = MaxSmall /\ Len(digests) = 2 /\ digests[1].io = 3

\* C9: a stream whose marker was right and has one marker byte changed is
\* refused with BadHeader by Reader::new of either format, before the v2
\* checksum pass and whatever the digest is, unless a read fails.
C9_HeaderRejection ==
    (/\ pc \in {"verify", "reader", "closed", "rejected"}
     /\ SubSeq(pre.data, origin + 1, origin + MARKER_LEN)
          = (IF fmt = 1 THEN V1_MARKER ELSE V2_MARKER)
     /\ damaged # {} /\ damaged \subseteq 1..MARKER_LEN
     /\ ~io_failed)
    => pc = "rejected" /\ res = "BadHeader"

\* C9 witness: a v2 stream with a changed marker byte and a digest that
\* does not match its payload has been refused with BadHeader.
C9_Witness ==
    /\ fmt = 2 /\ pc = "rejected" /\ res = "BadHeader" /\ ~io_failed
    /\ damaged # {} /\ damaged \subseteq 1..MARKER_LEN
    /\ SubSeq(pre.data, origin + 1, origin + MARKER_LEN) = V2_MARKER
    /\ SubSeq(stream.data, origin + MARKER_LEN + 1, origin + HEADER_LEN)
         # ChecksumFinish(SubSeq(stream.data, origin + HEADER_LEN + 1,
                                 Len(stream.data)))

\* The stream handed to the Reader was a valid format-2 encoding before it
\* was damaged.
ValidV2 ==
    /\ SubSeq(pre.data, origin + 1, origin + MARKER_LEN) = V2_MARKER
    /\ SubSeq(pre.data, origin + MARKER_LEN + 1, origin + HEADER_LEN)
         = ChecksumFinish(SubSeq(pre.data, origin + HEADER_LEN + 1,
                                 Len(pre.data)))

\* C10: a valid format-2 stream with one digest byte or one stored payload
\* byte changed is refused with BadChecksum by v2 Reader::new, unless a
\* read fails.
C10_ChecksumRejection ==
    (/\ fmt = 2 /\ pc \in {"reader", "closed", "rejected"}
     /\ ValidV2
     /\ damaged # {} /\ \A i \in damaged : i > MARKER_LEN
     /\ ~io_failed)
    => pc = "rejected" /\ res = "BadChecksum"

\* C10 witness: a valid stream longer than one chunk with a changed payload
\* byte has been refused with BadChecksum.
C10_Witness ==
    /\ fmt = 2 /\ pc = "rejected" /\ res = "BadChecksum" /\ ~io_failed
    /\ ValidV2 /\ Len(D) > BUFFER_LEN
    /\ damaged # {} /\ \A i \in damaged : i > HEADER_LEN

\* The last call was this kind of seek and the wrapped stream's own seeks
\* did what they were asked.
Sought(whence) ==
    call.op = "seek" /\ call.whence = whence /\ call.fault = NoFault

\* C11: once base is captured, after every read, write and seek of a live
\* Reader or Writer, failed or not, the wrapped stream's position is
\* base + offset.
C11_PositionInvariant ==
    (pc \in {"reader", "writer"} /\ cursor.base # None) =>
        stream.pos = cursor.base[1] + cursor.offset

\* C12: a seek from the end that lands before base is refused with
\* InvalidInput, and the stream's position and the logical offset are what
\* they were before the call.
C12_EndRejected ==
    (/\ Sought("End") /\ cursor.base # None
     /\ Len(stream.data) + call.n >= 0
     /\ Len(stream.data) + call.n < cursor.base[1])
    => /\ res = "InvalidInput"
       /\ stream.pos = call.pos
       /\ cursor.offset = call.cur.offset

\* C13: a seek from the start with argument n fails with InvalidInput
\* exactly when base + n does not fit u64, and then the stream is not
\* sought and the offset is kept; otherwise the stream is sought to
\* base + n and n is returned and is the new offset.
C13_StartSeek ==
    (Sought("Start") /\ cursor.base # None) =>
        IF cursor.base[1] + call.n >= U64_MOD
        THEN /\ res = "InvalidInput"
             /\ stream.pos = call.pos
             /\ cursor.offset = call.cur.offset
        ELSE /\ res = "Ok"
             /\ stream.pos = cursor.base[1] + call.n
             /\ call.val = call.n
             /\ cursor.offset = call.n

\* C13 witness: the smallest argument that does not fit has been refused on
\* a v2 Reader that had read a byte.
C13_Witness ==
    /\ Sought("Start") /\ fmt = 2 /\ pc = "reader" /\ cursor.base = Some(HEADER_LEN)
    /\ call.n = U64_MOD - HEADER_LEN /\ call.cur.offset = 1
    /\ res = "InvalidInput" /\ stream.pos = HEADER_LEN + 1 /\ cursor.offset = 1

\* C14: a seek from the current position by delta is refused with
\* InvalidInput when offset + delta is negative, and then nothing moves;
\* otherwise (the target being a position the stream has) the stream moves
\* by exactly delta and offset + delta is returned and is the new offset.
C14_CurrentSeek ==
    (Sought("Current") /\ cursor.base # None) =>
        IF call.cur.offset + call.n < 0
        THEN /\ res = "InvalidInput"
             /\ stream.pos = call.pos
             /\ cursor.offset = call.cur.offset
        ELSE (call.pos + call.n >= 0 /\ call.pos + call.n < U64_MOD) =>
             /\ res = "Ok"
             /\ stream.pos = call.pos + call.n
             /\ call.val = call.cur.offset + call.n
             /\ cursor.offset = call.cur.offset + call.n

\* The header of the format, as a length.
HeaderLen == IF fmt = 1 THEN MARKER_LEN ELSE HEADER_LEN

\* C15: on a stream that held the encoding from position 0, every
\* successful seek returns new position - base and stores it as the
\* offset, where base is the header length: from the start with k it
\* returns k, from the end of a Reader's stream with -k it returns L - k,
\* from the current offset o with d it returns o + d.
C15_SeekReturnsOffset ==
    (call.op = "seek" /\ res = "Ok" /\ origin = 0) =>
        /\ cursor.base = Some(HeaderLen)
        /\ call.val = stream.pos - HeaderLen
        /\ cursor.offset = call.val
        /\ call.whence = "Start" => call.val = call.n
        /\ (call.whence = "End" /\ pc = "reader") => call.val = Len(D) + call.n
        /\ call.whence = "Current" => call.val = call.cur.offset + call.n

\* C16: on a stream that held the encoding of D from position 0, after any
\* seeks and reads, a read at logical offset k returns D[k], D[k+1], ... and
\* returns nothing only at or after the end of D; a write through a v1
\* Writer at logical offset k puts the stored bytes at position
\* MARKER_LEN + k.
C16_SeekConsistency ==
    /\ (call.op = "read" /\ res = "Ok" /\ origin = 0) =>
          /\ \A i \in 1..call.val :
                /\ call.cur.offset + i <= Len(D)
                /\ call.buf[i] = D[call.cur.offset + i]
          /\ (call.val = 0 /\ call.n > 0) => call.cur.offset >= Len(D)
    /\ (call.op = "write" /\ res = "Ok" /\ origin = 0) =>
          \A i \in 1..call.val :
             /\ MARKER_LEN + call.cur.offset + i <= Len(stream.data)
             /\ stream.data[MARKER_LEN + call.cur.offset + i]
                  = XorByte(call.buf[i])

\* C17: a write on a v2 Writer does not panic whatever the length of the
\* caller's buffer: it accepts at most one chunk and returns the count (or
\* the stream's error), and the Writer stays usable.
C17_V2WriteChunks ==
    (fmt = 2 /\ digests = <<>> /\ pc \in {"writer", "unwind"}) =>
        /\ pc = "writer"
        /\ res \in {"Ok", "Io"}

\* C18: wherever the stream was when v2 Reader::new got it, after a
\* successful construction the stream is just after the 29-byte header
\* that was read and the offset is 0, and the first bytes read are the
\* first payload byte decoded.
C18_ReaderNewPosition ==
    (fmt = 2 /\ pc = "reader") =>
        /\ call.op = "none" =>
              /\ stream.pos = origin + HEADER_LEN
              /\ cursor = CursorNew
        /\ (call.op = "read" /\ call.cur = CursorNew /\ call.val > 0) =>
              /\ Len(D) > 0
              /\ call.buf[1] = D[1]

\* The bytes of stream s with the digest of checksum state c at 9..29.
Patched(s, c) == StreamWrite([s EXCEPT !.pos = MARKER_LEN], ChecksumFinish(c)).data

\* C19: a v2 Writer dropped without into_inner runs the finalization of
\* into_inner: when it succeeds all three calls were issued and the stream
\* holds the bytes an explicit finalize leaves, the digest of all bytes
\* written in the header; when a step fails the drop panics, so a dropped
\* Writer never leaves another digest behind without a panic.
C19_DropFinalizes ==
    fmt = 2 =>
        /\ pc \in {"dropped", "returned"} => stream.data = Patched(pre, checksum)
        /\ Len(digests) = 1 =>
              /\ digests[1].io > 0
              /\ digests[1].res = "Ok" => digests[1].io = 3
              /\ digests[1].res # "Ok" => (pc = "panicked" /\ res = "Panic")
              /\ stream.data # Patched(pre, checksum) => pc = "panicked"

\* C19 witness: a Writer that accepted more than one chunk was dropped and
\* the stream holds the marker, the digest of the stored payload and the
\* stored payload.
C19_Witness ==
    /\ fmt = 2 /\ pc = "dropped" /\ origin = 0 /\ Len(digests) = 1
    /\ sent = Len(D) /\ sent > BUFFER_LEN
    /\ stream.data = V2_MARKER \o ChecksumFinish(Accepted) \o Accepted

\* C20: a read that returns n leaves the first n bytes of the caller's
\* buffer holding the stream's bytes XOR 0x80 and the rest of the buffer
\* untouched, and advances the offset (and the stream) by n; at the end of
\* the stream it returns 0 and the offset is kept; a failure of the wrapped
\* read is returned with offset and buffer untouched.
C20_CursorRead ==
    call.op = "read" =>
        /\ res \in {"Ok", "Io"}
        /\ Len(call.buf) = call.n
        /\ res = "Ok" =>
              /\ call.val <= call.n
              /\ \A i \in 1..call.val :
                    call.buf[i] = (stream.data[call.pos + i] + 128) % 256
              /\ \A i \in (call.val + 1)..call.n : call.buf[i] = Filler
              /\ cursor = [call.cur EXCEPT !.offset = call.cur.offset + call.val]
              /\ stream.pos = call.pos + call.val
              /\ call.pos >= Len(stream.data) => call.val = 0
        /\ res = "Io" =>
              /\ cursor = call.cur
              /\ stream.pos = call.pos
              /\ \A i \in 1..call.n : call.buf[i] = Filler

\* C20 witness: a read into a 3-byte buffer returned 1 byte of a 2-byte
\* payload at offset 1.
C20_Witness ==
    /\ call.op = "read" /\ res = "Ok" /\ pc = "reader" /\ fmt = 2 /\ origin = 0
    /\ Len(D) = 2 /\ Len(call.buf) = 3
    /\ call.n = MaxReadBuf /\ call.val = 1 /\ call.cur.offset = 1
    /\ call.buf = <<D[2], Filler, Filler>> /\ cursor.offset = 2

\* C21: one write through the Cursor passes at most the first BUFFER_LEN
\* bytes of the caller's buffer, XORed with 0x80, to the stream, returns the
\* count m the stream accepted and advances the offset by m, the stream
\* then holding the stored form of exactly the bytes accepted so far; a
\* failed write leaves offset and stream alone; the caller's bytes are what
\* they were.
C21_CursorWrite ==
    call.op = "write" =>
        /\ res \in {"Ok", "Io"}
        /\ call.buf = SubSeq(D, sent - call.val + 1, sent - call.val + call.n)
        /\ res = "Ok" =>
              /\ call.val <= Min(call.n, BUFFER_LEN)
              /\ cursor = [call.cur EXCEPT !.offset = call.cur.offset + call.val]
              /\ stream.pos = call.pos + call.val
              /\ \A i \in 1..call.val :
                    stream.data[call.pos + i] = (call.buf[i] + 128) % 256
              /\ stream.data = [i \in 1..origin |-> 255] \o V1_MARKER
                                 \o Stored(SubSeq(D, 1, sent))
        /\ res = "Io" =>
              /\ call.val = 0
              /\ cursor = call.cur
              /\ stream.pos = call.pos
              /\ stream.data = [i \in 1..origin |-> 255] \o V1_MARKER
                                 \o Stored(SubSeq(D, 1, sent))

\* C21 witness: a buffer two bytes longer than a chunk was offered and one
\* chunk of it was accepted.
C21_Witness ==
    /\ call.op = "write" /\ res = "Ok" /\ fmt = 1 /\ pc = "writer"
    /\ call.n = BUFFER_LEN + MaxChunkOver /\ call.val = BUFFER_LEN
    /\ call.cur.offset = 0 /\ cursor.offset = BUFFER_LEN
    /\ Len(stream.data) = origin + MARKER_LEN + BUFFER_LEN

\* C22: while a v2 Writer is written to, whatever prefix of each offered
\* buffer the stream accepts and whichever writes fail, the checksum has
\* been fed exactly the bytes the stream accepted, in order, each the
\* plaintext byte XOR 0x80 once: the bytes the stream holds after the
\* header.
C22_ChecksumCoverage ==
    (fmt = 2 /\ pc \in {"writer", "unwind"}) =>
        /\ checksum = [i \in 1..sent |-> (D[i] + 128) % 256]
        /\ checksum = SubSeq(stream.data, origin + HEADER_LEN + 1, Len(stream.data))

\* C22 witness: the stream has accepted more than one chunk but not all of
\* D, a write has failed on the way, and the checksum holds what was
\* accepted.
C22_Witness ==
    /\ fmt = 2 /\ pc = "writer" /\ io_failed /\ res = "Ok"
    /\ sent > BUFFER_LEN /\ sent < Len(D)
    /\ Len(checksum) = sent /\ checksum[sent] = (D[sent] + 128) % 256

\* C23: base is unset when the Reader or Writer is constructed and stays
\* unset through reads and writes; the first seek whose position query
\* succeeds sets it to the stream's position minus the offset at that
\* moment, whether or not that seek then succeeds; and once set no read,
\* write or seek, failed or not, changes it.
C23_LazyBase ==
    /\ (pc \in {"reader", "writer"} /\ call.op = "none") => cursor.base = None
    /\ call.op \in {"read", "write"} => cursor.base = call.cur.base
    /\ call.op = "seek" =>
          cursor.base = IF call.cur.base # None THEN call.cur.base
                        ELSE IF call.fault.q THEN None
                        ELSE Some(call.pos - call.cur.offset)

\* C23 witness: the first seek of a v1 Reader, made after two bytes were
\* read from a stream that started at position 1, was refused, and base is
\* 1 + MARKER_LEN.
C23_Witness ==
    /\ call.op = "seek" /\ fmt = 1 /\ pc = "reader" /\ origin = 1
    /\ call.cur = [base |-> None, offset |-> 2]
    /\ call.pos = 1 + MARKER_LEN + 2
    /\ res = "InvalidInput"
    /\ cursor = [base |-> Some(1 + MARKER_LEN), offset |-> 2]

\* C24: in the verification pass of v2 Reader::new a read that fails with
\* Interrupted is retried: nothing is fed to the checksum, nothing is
\* consumed and construction goes on; any other failure ends construction
\* at once with Io and no Reader; the pass ends only with Ok and a Reader,
\* or with BadChecksum or Io and none; and when the stream does not
\* interrupt for ever, every pass ends.
C24_VerificationPass ==
    /\ [][(pc = "verify" /\ res' = "Interrupted") =>
             (pc' = "verify" /\ checksum' = checksum /\ stream' = stream)]_vars
    /\ [][(pc = "verify" /\ res' = "Io") =>
             (pc' = "rejected" /\ checksum' = checksum)]_vars
    /\ [][(pc = "verify" /\ pc' # "verify") =>
             \/ pc' = "reader" /\ res' = "Ok"
             \/ pc' = "rejected" /\ res' \in {"BadChecksum", "Io"}]_vars
    /\ (pc = "verify") ~> (pc \in {"reader", "rejected"})

\* C24 witness: a read of the pass over a payload longer than one chunk was
\* interrupted after one chunk had been fed to the checksum.
C24_Witness ==
    /\ fmt = 2 /\ pc = "verify" /\ res = "Interrupted"
    /\ Len(D) > BUFFER_LEN /\ Len(checksum) = BUFFER_LEN

\* out[4i+j] = raw[4i+3-j] for each of the five words i and j in 0..3.
WordSwapped(digest, raw) ==
    /\ Len(digest) = SHA1_OUTPUT_LEN
    /\ \A i \in 0..(SHA1_OUTPUT_LEN \div 4 - 1), j \in 0..3 :
          digest[4 * i + j + 1] = raw[4 * i + (3 - j) + 1]

\* C25: the digest a v2 Writer leaves in the header at finalization is the
\* raw digest of what it was fed with the bytes of each 4-byte word
\* reversed and the words in place; a v2 Reader is constructed exactly when
\* the digest in the header it read is the raw digest of the bytes after
\* the header transformed the same way, and BadChecksum means it is not.
C25_DigestWords ==
    /\ FinalizedOk =>
          WordSwapped(SubSeq(stream.data, MARKER_LEN + 1, HEADER_LEN),
                      Sha1(checksum))
    /\ (fmt = 2 /\ pc \in {"reader", "closed"}) =>
          WordSwapped(SubSeq(hdr, MARKER_LEN + 1, HEADER_LEN),
                      Sha1(SubSeq(stream.data, origin + HEADER_LEN + 1,
                                  Len(stream.data))))
    /\ (fmt = 2 /\ res = "BadChecksum") =>
          ~WordSwapped(SubSeq(hdr, MARKER_LEN + 1, HEADER_LEN), Sha1(checksum))

\* C25 witness: a Reader exists over a payload longer than one chunk whose
\* stored digest differs from the raw digest in the first and in the last
\* word.
C25_Witness ==
    /\ fmt = 2 /\ pc = "reader" /\ origin = 0 /\ Len(D) > BUFFER_LEN
    /\ hdr[MARKER_LEN + 1] = Sha1(Stored(D))[4]
    /\ hdr[MARKER_LEN + 1] # Sha1(Stored(D))[1]
    /\ hdr[HEADER_LEN] = Sha1(Stored(D))[SHA1_OUTPUT_LEN - 3]
    /\ hdr[HEADER_LEN] # Sha1(Stored(D))[SHA1_OUTPUT_LEN]

\* C26: a stream that holds a correctly finalized format-2 encoding of D
\* followed by further bytes, handed to v2 Reader::new at the start of the
\* encoding, is refused with BadChecksum unless a read fails: the checksum
\* pass covers every byte after the header up to the end of the stream.
C26_TrailingBytes ==
    (/\ fmt = 2 /\ pc \in {"reader", "closed", "rejected"}
     /\ SubSeq(pre.data, origin + 1, origin + HEADER_LEN + Len(D)) = Encode(2, D)
     /\ Len(pre.data) > origin + HEADER_LEN + Len(D)
     /\ damaged = {} /\ ~io_failed)
    => /\ pc = "rejected" /\ res = "BadChecksum"
       /\ checksum = SubSeq(pre.data, origin + HEADER_LEN + 1, Len(pre.data))

\* C26 witness: a Writer was given a buffer one byte longer than header and
\* payload, wrote D and was unwrapped, and the stream was refused with
\* BadChecksum.
C26_Witness ==
    /\ fmt = 2 /\ pc = "rejected" /\ res = "BadChecksum" /\ origin = 0
    /\ finished = "Ok" /\ damaged = {} /\ ~io_failed /\ Len(D) = MaxSmall
    /\ Len(stream.data) = HEADER_LEN + Len(D) + 1
    /\ SubSeq(stream.data, 1, HEADER_LEN + Len(D)) = Encode(2, D)

====
